---- MODULE Spec2Model ----
(***************************************************************************)
(* lowkey: the session pool (components/session.py) and the per-request    *)
(* task function of the crawler (components/crawler.py).                   *)
(*                                                                         *)
(* Time is counted in whole seconds.  Code that runs between two awaits is *)
(* one step: the program is a single asyncio event loop, so nothing else   *)
(* runs between two awaits of a task.                                      *)
(*                                                                         *)
(* Session objects are crawlee.sessions.Session objects built by           *)
(* create_sessions_from_users with the library's default limits; retire(), *)
(* mark_good() and is_usable are that class's: retire() blocks the session *)
(* (error score raised by the maximum), both count one use, and is_usable  *)
(* is "not blocked, not expired, use count below the maximum".             *)
(***************************************************************************)
EXTENDS Integers, Sequences, FiniteSets, TLC

(* ---------------------------- bounds --------------------------------- *)
NumUsers == 2
NumUnits == 2
MaxTime == 3
MaxSessionRotations == 2
MaxHandlerTime == 1
MaxRequestRetries == 1
MaxUserId == 10
MaxUrls == 2
MaxWork == 2
MaxRandom == 1

(* ----------------------- program constants --------------------------- *)
MaxConcurrency == 2
DesiredConcurrency == 1
RegenTime == 1
PollInterval == 1
WaitBudget == 30 * 60
MaxUsageCount == 50
MaxAge == 50 * 60
InternalMaxRetries == 3

NoSession == 0
NoUnit == 0
SessionIds == 1..NumUsers
UnitIds == 1..NumUnits
Tasks == 1..MaxConcurrency

VARIABLES
    now,          \* datetime.now(UTC), seconds since the pool was built
    regen_time,   \* SessionPool.regen_time
    max_session_rotations, \* BasicCrawler._max_session_rotations
    concurrency,  \* tasks the autoscaled pool runs at once
    pool,         \* keys of SessionPool._state.current_value.sessions
    last_used,    \* SessionPool.last_used: session id -> time
    sess,         \* the Session objects: blocked, usage_count
    queue,        \* the request queue, front first
    unit,         \* the Request objects: session_id, session_rotation_count, retry_count,
                  \* no_retry, and what the run did with each: state, handled, failures,
                  \* committed, handler_reached, last_error (the exception the
                  \* try statement caught in the current attempt)
    task,         \* the locals of each running __run_task_function
    aborted,      \* an exception left __run_task_function
    users,        \* the list of User objects the run was started with
    before_start_urls, \* the warm-up URLs given to create_requests
    work,         \* the list of WorkUnit objects given to create_requests
    requests,     \* what create_requests returned
    sessions,     \* SessionPool._state.current_value.sessions with the data of each
                  \* Session: id, user_data, cookies, blocked
    written_back, \* what create_users_from_sessions returned or raised
    run           \* ScraperStorage.start_run: the steps it has called, in order,
                  \* and the exception that left it

\* what the crawler is built with
settings == <<regen_time, max_session_rotations, concurrency>>

\* the identities, the submitted requests and the data the sessions carry; the
\* steps of __run_task_function below see the session map as pool and sess, with
\* the session ids abbreviated to numbers
data == <<users, before_start_urls, work, requests, sessions, written_back, run>>

vars == <<now, regen_time, max_session_rotations, concurrency, pool, last_used, sess, queue,
          unit, task, aborted, users, before_start_urls, work, requests, sessions,
          written_back, run>>

IdleTask == [pc |-> "idle", request |-> NoUnit, session |-> NoSession,
             call |-> 0, start_time |-> 0, wake |-> 0, entered |-> 0, tries |-> 0]

(* ------------------------- Session ----------------------------------- *)
\* Session.is_usable: not (is_blocked or is_expired or is_max_usage_count_reached)
IsUsable(s) ==
    /\ ~sess[s].blocked
    /\ now < MaxAge
    /\ sess[s].usage_count < MaxUsageCount

\* mutant of Retire: the use is counted but the session is not blocked
RetireCountsOnly(ss, s) ==
    [ss EXCEPT ![s].usage_count = @ + 1]

\* Session.retire()
Retire(ss, s) ==
    [ss EXCEPT ![s] = [blocked |-> TRUE, usage_count |-> @.usage_count + 1]]

\* Session.mark_good(): one more use; a session that is no longer usable after it
\* retires itself
MarkGood(ss, s) ==
    IF ss[s].usage_count + 1 >= MaxUsageCount
    THEN Retire([ss EXCEPT ![s].usage_count = @ + 1], s)
    ELSE [ss EXCEPT ![s].usage_count = @ + 1]

(* ------------------------- SessionPool ------------------------------- *)
\* mutant of IsRested: a session counts as rested when exactly regen_time has passed
IsRestedAtBoundary(s) ==
    \/ s \notin DOMAIN last_used
    \/ now - last_used[s] >= regen_time

\* the condition of the list comprehension of _get_random_rested_session
IsRested(s) ==
    \/ s \notin DOMAIN last_used
    \/ now - last_used[s] > regen_time

\* rested_sessions of _get_random_rested_session, over the session map p
RestedSessions(p) == {s \in p : IsRested(s)}

\* mutant of Touch: the write to last_used is lost
TouchLost(s) == last_used

\* self.last_used[session.id] = datetime.now(UTC)
Touch(s) ==
    [x \in DOMAIN last_used \cup {s} |-> IF x = s THEN now ELSE last_used[x]]

\* mutant of RemoveRetired: the purge creates a session in place of the removed ones
RemoveRetiredAndRefill(p) == {s \in p : IsUsable(s)} \cup {NumUsers + 1}

\* SessionPool._remove_retired_sessions()
RemoveRetired(p) == {s \in p : IsUsable(s)}

\* mutant of GetSessionById: a session inside its rest period is not handed out
GetSessionByIdRested(id) ==
    IF id \notin pool THEN NoSession
    ELSE IF ~IsUsable(id) THEN NoSession
    ELSE IF ~IsRested(id) THEN NoSession
    ELSE id

\* mutant of GetSessionById: the is_usable test is missing
GetSessionByIdAnyState(id) ==
    IF id \notin pool THEN NoSession ELSE id

\* SessionPool.get_session_by_id: the session handed out, or NoSession for None
GetSessionById(id) ==
    IF id \notin pool THEN NoSession
    ELSE IF ~IsUsable(id) THEN NoSession
    ELSE id

\* get_session returns session s to task t; p is the session map it leaves
Return(t, s, p) ==
    /\ pool' = p
    /\ last_used' = Touch(s)
    /\ task' = [task EXCEPT ![t] = [IdleTask EXCEPT !.pc = "running",
                                       !.request = task[t].request,
                                       !.session = s]]
    /\ aborted' = aborted

\* await asyncio.sleep(1) in call c (first or second) of get_random_rested_session,
\* which started at st; get_session was entered at en
Sleep(t, c, st, en, p) ==
    /\ pool' = p
    /\ last_used' = last_used
    /\ task' = [task EXCEPT ![t] = [@ EXCEPT !.pc = "sleeping", !.call = c,
                                       !.start_time = st, !.entered = en,
                                       !.wake = now + PollInterval]]
    /\ aborted' = aborted

\* an exception leaves get_session; the call at crawler.py line 96 is outside the
\* try statement, so it leaves __run_task_function too
Raise(t, p) ==
    /\ pool' = p
    /\ last_used' = last_used
    /\ task' = [task EXCEPT ![t] = [IdleTask EXCEPT !.pc = "crashed",
                                       !.request = task[t].request]]
    /\ aborted' = TRUE

\* mutant of SecondSelect: with an empty session map the call keeps polling
SecondSelectPolls(t, p, st, en) ==
    IF RestedSessions(p) = {} THEN Sleep(t, 2, st, en, p)
    ELSE \E s \in RestedSessions(p) : Return(t, s, p)

\* one round of the loop of the second get_random_rested_session() of get_session,
\* then "self.last_used[session.id] = ...; return session" without an is_usable test
SecondSelect(t, p, st, en) ==
    IF p = {} THEN Raise(t, p)
    ELSE IF RestedSessions(p) = {} THEN Sleep(t, 2, st, en, p)
    ELSE \E s \in RestedSessions(p) : Return(t, s, p)

\* one round of the loop of the first get_random_rested_session() of get_session,
\* then the is_usable test, and for an unusable session the purge and the second call
FirstSelect(t, st, en) ==
    IF pool = {} THEN Raise(t, pool)
    ELSE IF RestedSessions(pool) = {} THEN Sleep(t, 1, st, en, pool)
    ELSE \E s \in RestedSessions(pool) :
            IF IsUsable(s) THEN Return(t, s, pool)
            ELSE SecondSelect(t, RemoveRetired(pool), now, en)

(* ------------------- __run_task_function ----------------------------- *)
\* BasicCrawler._should_retry_request for a SessionError
ShouldRetrySessionError(u) ==
    /\ ~unit[u].no_retry
    /\ unit[u].session_rotation_count + 1 < max_session_rotations

\* request_manager.fetch_next_request() returned a request; the autoscaled pool
\* starts the task in the first free slot (a slot number is a label)
Fetch(t) ==
    /\ t <= concurrency
    /\ \A t2 \in 1..(t - 1) : task[t2].pc # "idle"
    /\ ~aborted
    /\ task[t].pc = "idle"
    /\ queue # <<>>
    /\ task' = [task EXCEPT ![t] = [IdleTask EXCEPT !.pc = "fetched",
                                       !.request = Head(queue)]]
    /\ queue' = Tail(queue)
    /\ unit' = [unit EXCEPT ![Head(queue)] =
                    [@ EXCEPT !.state = "REQUEST_HANDLER", !.last_error = "none"]]
    /\ UNCHANGED <<now, settings, data, pool, last_used, sess, aborted>>

\* session = await self._get_session_by_id(request.session_id)
ResolveById(t) ==
    /\ task[t].pc = "fetched"
    /\ unit[task[t].request].session_id # NoSession
    /\ LET s == GetSessionById(unit[task[t].request].session_id) IN
        /\ last_used' = IF s = NoSession THEN last_used ELSE Touch(s)
        /\ task' = [task EXCEPT ![t] = [@ EXCEPT !.pc = "running", !.session = s]]
    /\ UNCHANGED <<now, settings, data, pool, sess, queue, unit, aborted>>

\* session = await self._get_session(): SessionPool.get_session() up to its first
\* await asyncio.sleep(1), or to its return
GetSession(t) ==
    /\ task[t].pc = "fetched"
    /\ unit[task[t].request].session_id = NoSession
    /\ FirstSelect(t, now, now)
    /\ UNCHANGED <<now, settings, data, sess, queue, unit>>

\* asyncio.sleep(1) is over: the timeout test, then the next round of the loop
PollWake(t) ==
    /\ task[t].pc = "sleeping"
    /\ now >= task[t].wake
    /\ IF now - task[t].start_time > WaitBudget THEN Raise(t, pool)
       ELSE IF task[t].call = 1
            THEN FirstSelect(t, task[t].start_time, task[t].entered)
            ELSE SecondSelect(t, pool, task[t].start_time, task[t].entered)
    /\ UNCHANGED <<now, settings, data, sess, queue, unit>>

\* mutant of Collision: no_retry is not set, the request is reclaimed for a retry
CollisionRetried(t) ==
    /\ task[t].pc = "running"
    /\ task[t].session = NoSession
    /\ unit' = [unit EXCEPT ![task[t].request] =
                    [@ EXCEPT !.retry_count = @ + 1, !.state = "RECLAIMED",
                              !.last_error = "RequestCollisionError"]]
    /\ queue' = Append(queue, task[t].request)
    /\ task' = [task EXCEPT ![t] = IdleTask]
    /\ UNCHANGED <<now, settings, data, pool, last_used, sess, aborted>>

\* _check_request_collision raises RequestCollisionError: the request names a
\* session and the lookup gave None
Collision(t) ==
    /\ task[t].pc = "running"
    /\ task[t].session = NoSession
    /\ unit' = [unit EXCEPT ![task[t].request] =
                    [@ EXCEPT !.no_retry = TRUE, !.state = "FAILED",
                              !.handled = @ + 1, !.failures = @ + 1,
                              !.last_error = "RequestCollisionError"]]
    /\ task' = [task EXCEPT ![t] = IdleTask]
    /\ UNCHANGED <<now, settings, data, pool, last_used, sess, queue, aborted>>

\* mutant of HandlerSuccess: the end of the handler writes last_used again
HandlerSuccessTouches(t) ==
    /\ task[t].pc = "running"
    /\ task[t].session # NoSession
    /\ unit' = [unit EXCEPT ![task[t].request] =
                    [@ EXCEPT !.state = "DONE", !.committed = TRUE, !.handled = @ + 1,
                              !.finished = @ + 1, !.handler_reached = TRUE]]
    /\ sess' = IF IsUsable(task[t].session) THEN MarkGood(sess, task[t].session)
               ELSE sess
    /\ last_used' = Touch(task[t].session)
    /\ task' = [task EXCEPT ![t] = IdleTask]
    /\ UNCHANGED <<now, settings, data, pool, queue, aborted>>

\* the request handler returned: commit, mark handled, DONE, mark_good,
\* record_request_processing_finish
HandlerSuccess(t) ==
    /\ task[t].pc = "running"
    /\ task[t].session # NoSession
    /\ unit' = [unit EXCEPT ![task[t].request] =
                    [@ EXCEPT !.state = "DONE", !.committed = TRUE, !.handled = @ + 1,
                              !.finished = @ + 1, !.handler_reached = TRUE]]
    /\ sess' = IF IsUsable(task[t].session) THEN MarkGood(sess, task[t].session)
               ELSE sess
    /\ task' = [task EXCEPT ![t] = IdleTask]
    /\ UNCHANGED <<now, settings, data, pool, last_used, queue, aborted>>

\* mutant of HandlerSessionError: the rotation is not counted
HandlerSessionErrorUncounted(t) ==
    /\ task[t].pc = "running"
    /\ task[t].session # NoSession
    /\ LET u == task[t].request IN
        IF ShouldRetrySessionError(u)
        THEN /\ sess' = Retire(sess, task[t].session)
             /\ unit' = [unit EXCEPT ![u] =
                            [@ EXCEPT !.state = "RECLAIMED",
                                      !.last_error = "SessionError"]]
             /\ queue' = Append(queue, u)
        ELSE /\ sess' = sess
             /\ unit' = [unit EXCEPT ![u] =
                            [@ EXCEPT !.state = "FAILED", !.handled = @ + 1,
                                      !.failures = @ + 1,
                                      !.last_error = "SessionError"]]
             /\ queue' = queue
    /\ task' = [task EXCEPT ![t] = IdleTask]
    /\ UNCHANGED <<now, settings, data, pool, last_used, aborted>>

\* except SessionError
HandlerSessionError(t) ==
    /\ task[t].pc = "running"
    /\ task[t].session # NoSession
    /\ LET u == task[t].request IN
        IF ShouldRetrySessionError(u)
        THEN /\ sess' = Retire(sess, task[t].session)
             /\ unit' = [unit EXCEPT ![u] =
                            [@ EXCEPT !.session_rotation_count = @ + 1,
                                      !.state = "RECLAIMED",
                                      !.last_error = "SessionError"]]
             /\ queue' = Append(queue, u)
        ELSE /\ sess' = sess
             /\ unit' = [unit EXCEPT ![u] =
                            [@ EXCEPT !.state = "FAILED", !.handled = @ + 1,
                                      !.failures = @ + 1,
                                      !.last_error = "SessionError"]]
             /\ queue' = queue
    /\ task' = [task EXCEPT ![t] = IdleTask]
    /\ UNCHANGED <<now, settings, data, pool, last_used, aborted>>

\* BasicCrawler._should_retry_request for an error that is not a SessionError
ShouldRetryRequest(u) ==
    /\ ~unit[u].no_retry
    /\ unit[u].retry_count < MaxRequestRetries

\* mutant of HandleRequestError: a request that is reclaimed is marked handled too
HandleRequestErrorMarksToo(u, e, reached) ==
    IF ShouldRetryRequest(u)
    THEN /\ unit' = [unit EXCEPT ![u] =
                        [@ EXCEPT !.retry_count = @ + 1, !.state = "RECLAIMED",
                                  !.handled = @ + 1,
                                  !.handler_reached = @ \/ reached,
                                  !.last_error = e]]
         /\ queue' = Append(queue, u)
    ELSE /\ unit' = [unit EXCEPT ![u] =
                        [@ EXCEPT !.state = "FAILED", !.handled = @ + 1,
                                  !.failures = @ + 1,
                                  !.handler_reached = @ \/ reached,
                                  !.last_error = e]]
         /\ queue' = queue

\* mutant of HandleRequestError: the failure of a request that is not retried is
\* not recorded
HandleRequestErrorUnrecorded(u, e, reached) ==
    IF ShouldRetryRequest(u)
    THEN /\ unit' = [unit EXCEPT ![u] =
                        [@ EXCEPT !.retry_count = @ + 1, !.state = "RECLAIMED",
                                  !.handler_reached = @ \/ reached,
                                  !.last_error = e]]
         /\ queue' = Append(queue, u)
    ELSE /\ unit' = [unit EXCEPT ![u] =
                        [@ EXCEPT !.state = "FAILED", !.handled = @ + 1,
                                  !.handler_reached = @ \/ reached,
                                  !.last_error = e]]
         /\ queue' = queue

\* await self._handle_request_error(context, error): reclaim the request while it
\* may be retried, else mark it handled and record the failure; reached tells
\* whether the error came from the request handler itself
HandleRequestError(u, e, reached) ==
    IF ShouldRetryRequest(u)
    THEN /\ unit' = [unit EXCEPT ![u] =
                        [@ EXCEPT !.retry_count = @ + 1, !.state = "RECLAIMED",
                                  !.handler_reached = @ \/ reached,
                                  !.last_error = e]]
         /\ queue' = Append(queue, u)
    ELSE /\ unit' = [unit EXCEPT ![u] =
                        [@ EXCEPT !.state = "FAILED", !.handled = @ + 1,
                                  !.failures = @ + 1,
                                  !.handler_reached = @ \/ reached,
                                  !.last_error = e]]
         /\ queue' = queue

\* except RequestHandlerError: the user-defined request handler raised (or timed out)
HandlerError(t) ==
    /\ task[t].pc = "running"
    /\ task[t].session # NoSession
    /\ HandleRequestError(task[t].request, "RequestHandlerError", TRUE)
    /\ task' = [task EXCEPT ![t] = IdleTask]
    /\ UNCHANGED <<now, settings, data, pool, last_used, sess, aborted>>

\* mutant of HandlerTimeout: the timeout is not wrapped and reaches except Exception
HandlerTimeoutUnwrapped(t) ==
    /\ task[t].pc = "running"
    /\ task[t].session # NoSession
    /\ task' = [task EXCEPT ![t] = [IdleTask EXCEPT !.pc = "crashed",
                                       !.request = task[t].request]]
    /\ unit' = [unit EXCEPT ![task[t].request].last_error = "TimeoutError"]
    /\ aborted' = TRUE
    /\ UNCHANGED <<now, settings, data, pool, last_used, sess, queue>>

\* except asyncio.TimeoutError as e: raise RequestHandlerError(e, context) from e,
\* then except RequestHandlerError: _handle_request_error with the wrapped exception
HandlerTimeout(t) ==
    /\ task[t].pc = "running"
    /\ task[t].session # NoSession
    /\ HandleRequestError(task[t].request, "TimeoutError", TRUE)
    /\ task' = [task EXCEPT ![t] = IdleTask]
    /\ UNCHANGED <<now, settings, data, pool, last_used, sess, aborted>>

\* except ContextPipelineInitializationError: a middleware raised before the
\* request handler was reached
InitializationError(t) ==
    /\ task[t].pc = "running"
    /\ task[t].session # NoSession
    /\ HandleRequestError(task[t].request, "ContextPipelineInitializationError", FALSE)
    /\ task' = [task EXCEPT ![t] = IdleTask]
    /\ UNCHANGED <<now, settings, data, pool, last_used, sess, aborted>>

\* mutant of Interrupted: the interruption is handled as a session error
InterruptedRotates(t) ==
    /\ task[t].pc = "running"
    /\ task[t].session # NoSession
    /\ unit' = [unit EXCEPT ![task[t].request] =
                    [@ EXCEPT !.state = "INTERRUPTED", !.handled = @ + 1,
                              !.last_error = "ContextPipelineInterruptedError"]]
    /\ sess' = Retire(sess, task[t].session)
    /\ task' = [task EXCEPT ![t] = IdleTask]
    /\ UNCHANGED <<now, settings, data, pool, last_used, queue, aborted>>

\* except ContextPipelineInterruptedError: mark the request handled, nothing else
Interrupted(t) ==
    /\ task[t].pc = "running"
    /\ task[t].session # NoSession
    /\ unit' = [unit EXCEPT ![task[t].request] =
                    [@ EXCEPT !.state = "INTERRUPTED", !.handled = @ + 1,
                              !.last_error = "ContextPipelineInterruptedError"]]
    /\ task' = [task EXCEPT ![t] = IdleTask]
    /\ UNCHANGED <<now, settings, data, pool, last_used, sess, queue, aborted>>

\* mutant of Unclassified: the exception is logged and swallowed
UnclassifiedSwallowed(t) ==
    /\ task[t].pc = "running"
    /\ task[t].session # NoSession
    /\ unit' = [unit EXCEPT ![task[t].request].last_error = "Exception"]
    /\ task' = [task EXCEPT ![t] = IdleTask]
    /\ UNCHANGED <<now, settings, data, pool, last_used, sess, queue, aborted>>

\* except Exception: log and raise
Unclassified(t) ==
    /\ task[t].pc = "running"
    /\ task[t].session # NoSession
    /\ task' = [task EXCEPT ![t] = [IdleTask EXCEPT !.pc = "crashed",
                                       !.request = task[t].request]]
    /\ unit' = [unit EXCEPT ![task[t].request].last_error = "Exception"]
    /\ aborted' = TRUE
    /\ UNCHANGED <<now, settings, data, pool, last_used, sess, queue>>

\* an attempt of wait_for(fetch_next_request, max_retries=3) timed out; after the
\* last one wait_for raises, outside the try statement
FetchTimeout(t) ==
    /\ t <= concurrency
    /\ \A t2 \in 1..(t - 1) : task[t2].pc # "idle"
    /\ ~aborted
    /\ task[t].pc = "idle"
    /\ IF task[t].tries + 1 >= InternalMaxRetries
       THEN /\ task' = [task EXCEPT ![t] = [@ EXCEPT !.pc = "crashed", !.tries = @ + 1]]
            /\ aborted' = TRUE
       ELSE /\ task' = [task EXCEPT ![t].tries = @ + 1]
            /\ aborted' = aborted
    /\ UNCHANGED <<now, settings, data, pool, last_used, sess, queue, unit>>

\* mutant of CommitResult: the result of the handler is not committed
CommitSkipped(t) ==
    /\ task[t].pc = "running"
    /\ task[t].session # NoSession
    /\ unit' = [unit EXCEPT ![task[t].request] = [@ EXCEPT !.handler_reached = TRUE]]
    /\ task' = [task EXCEPT ![t] = [@ EXCEPT !.pc = "marking"]]
    /\ UNCHANGED <<now, settings, data, pool, last_used, sess, queue, aborted>>

\* the request handler returned and await self._commit_request_handler_result(context)
\* is through; the task waits in wait_for(mark_request_as_handled)
CommitResult(t) ==
    /\ task[t].pc = "running"
    /\ task[t].session # NoSession
    /\ unit' = [unit EXCEPT ![task[t].request] =
                    [@ EXCEPT !.committed = TRUE, !.handler_reached = TRUE]]
    /\ task' = [task EXCEPT ![t] = [@ EXCEPT !.pc = "marking"]]
    /\ UNCHANGED <<now, settings, data, pool, last_used, sess, queue, aborted>>

\* the request handler returned and its result is committed; an attempt of
\* wait_for(mark_request_as_handled, max_retries=3) timed out; after the last one
\* wait_for raises, and "except Exception" raises it again
MarkHandledTimeout(t) ==
    /\ \/ task[t].pc = "running" /\ task[t].session # NoSession
       \/ task[t].pc = "marking"
    /\ unit' = [unit EXCEPT ![task[t].request] =
                    [@ EXCEPT !.committed = TRUE, !.handler_reached = TRUE,
                              !.last_error = IF task[t].tries + 1 >= InternalMaxRetries
                                             THEN "TimeoutError" ELSE @]]
    /\ IF task[t].tries + 1 >= InternalMaxRetries
       THEN /\ task' = [task EXCEPT ![t] = [IdleTask EXCEPT !.pc = "crashed",
                                               !.request = task[t].request,
                                               !.tries = task[t].tries + 1]]
            /\ aborted' = TRUE
       ELSE /\ task' = [task EXCEPT ![t] = [@ EXCEPT !.pc = "marking", !.tries = @ + 1]]
            /\ aborted' = aborted
    /\ UNCHANGED <<now, settings, data, pool, last_used, sess, queue>>

\* wait_for(mark_request_as_handled) returned after the task had to wait for it:
\* DONE, mark_good, record_request_processing_finish
MarkHandledRetried(t) ==
    /\ task[t].pc = "marking"
    /\ unit' = [unit EXCEPT ![task[t].request] =
                    [@ EXCEPT !.state = "DONE", !.handled = @ + 1, !.finished = @ + 1]]
    /\ sess' = IF IsUsable(task[t].session) THEN MarkGood(sess, task[t].session)
               ELSE sess
    /\ task' = [task EXCEPT ![t] = IdleTask]
    /\ UNCHANGED <<now, settings, data, pool, last_used, queue, aborted>>


\* a second passes; a task whose sleep is over runs first
Tick ==
    /\ now < MaxTime
    /\ \A t \in Tasks : task[t].pc = "sleeping" => task[t].wake > now
    /\ now' = now + 1
    /\ UNCHANGED <<settings, data, pool, last_used, sess, queue, unit, task, aborted>>

(* ------------------------- specification ----------------------------- *)
NewUnit(sid) == [session_id |-> sid, session_rotation_count |-> 0, retry_count |-> 0,
                 no_retry |-> FALSE, state |-> "UNPROCESSED", handled |-> 0,
                 failures |-> 0, finished |-> 0, committed |-> FALSE,
                 handler_reached |-> FALSE, last_error |-> "none",
                 work_type |-> "WORK"]

\* the scheduling steps read none of the data of the identities
NoData ==
    /\ users = <<>>
    /\ before_start_urls = <<>>
    /\ work = <<>>
    /\ requests = <<>>
    /\ sessions = <<>>
    /\ written_back = <<>>
    /\ run = <<>>

\* the state after SessionPool.__init__ (regen_time rt) and crawler.add_requests
\* (the requests us, in queue order), run by cc tasks at once
InitWith(rt, cc, us) ==
    /\ now = 0
    /\ regen_time = rt
    /\ concurrency = cc
    /\ pool = SessionIds
    /\ last_used = [s \in {} |-> 0]
    /\ sess = [s \in SessionIds |-> [blocked |-> FALSE, usage_count |-> 0]]
    /\ queue = [i \in DOMAIN us |-> i]
    /\ unit = us
    /\ task = [t \in Tasks |-> IdleTask]
    /\ aborted = FALSE
    /\ NoData

\* the identities are numbered in the order in which the requests first name
\* them: a session id is a label, and the pool treats all sessions alike
FirstNamedInOrder(us) ==
    \A i \in DOMAIN us : \A s \in 1..(us[i].session_id - 1) :
        \E j \in 1..(i - 1) : us[j].session_id = s

\* any mix of requests bound to a session and requests without session_id
Init ==
    \E us \in [UnitIds -> {NewUnit(sid) : sid \in {NoSession} \cup SessionIds}] :
        /\ FirstNamedInOrder(us)
        /\ InitWith(RegenTime, MaxConcurrency, us)
        /\ max_session_rotations = MaxSessionRotations

Step(t) ==
    \/ Fetch(t)
    \/ ResolveById(t)
    \/ GetSession(t)
    \/ PollWake(t)
    \/ Collision(t)
    \/ HandlerSuccess(t)
    \/ HandlerSessionError(t)

Next == Tick \/ \E t \in Tasks : Step(t)

Spec == Init /\ [][Next]_vars

\* The run with every outcome of a request: the exceptions of the handler and of
\* the context pipeline.  The clock stands still: the handling of an outcome does
\* not read it, and a get_session() that finds no rested session stays asleep.
StepOutcomes(t) ==
    \/ Fetch(t)
    \/ ResolveById(t)
    \/ GetSession(t)
    \/ Collision(t)
    \/ HandlerSuccess(t)
    \/ HandlerSessionError(t)
    \/ HandlerError(t)
    \/ InitializationError(t)
    \/ Interrupted(t)
    \/ Unclassified(t)

NextOutcomes == \E t \in Tasks : StepOutcomes(t)

SpecOutcomes == Init /\ [][NextOutcomes]_vars

\* The run with timeouts of the queue operations.
StepInfra(t) ==
    \/ Step(t)
    \/ FetchTimeout(t)
    \/ MarkHandledTimeout(t)
    \/ MarkHandledRetried(t)

NextInfra == Tick \/ \E t \in Tasks : StepInfra(t)

SpecInfra == Init /\ [][NextInfra]_vars

\* a crawler built with max_session_rotations=1
InitOneRotation ==
    \E us \in [UnitIds -> {NewUnit(sid) : sid \in {NoSession} \cup SessionIds}] :
        /\ FirstNamedInOrder(us)
        /\ InitWith(RegenTime, MaxConcurrency, us)
        /\ max_session_rotations = 1

StepOneRotation(t) ==
    \/ Fetch(t)
    \/ ResolveById(t)
    \/ GetSession(t)
    \/ HandlerSuccess(t)
    \/ HandlerSessionError(t)

NextOneRotation == Tick \/ \E t \in Tasks : StepOneRotation(t)

SpecOneRotation == InitOneRotation /\ [][NextOneRotation]_vars

\* A long work list, every unit bound to the first identity's session (what
\* create_requests makes of one identity), run at the concurrency the crawler
\* starts with, with time standing still: the by-id lookup does not read the
\* clock.
InitUsage ==
    /\ InitWith(RegenTime, DesiredConcurrency, [i \in 1..(MaxUsageCount + 2) |-> NewUnit(1)])
    /\ max_session_rotations = MaxSessionRotations

StepUsage(t) ==
    \/ Fetch(t)
    \/ ResolveById(t)
    \/ Collision(t)
    \/ HandlerSuccess(t)
    \/ HandlerSessionError(t)

NextUsage == \E t \in Tasks : StepUsage(t)

SpecUsage == InitUsage /\ [][NextUsage]_vars

\* A cooldown one second longer than the wait budget of get_random_rested_session
LongRegenTime == WaitBudget + 1

\* One request bound to each of two sessions, then one without session_id, run at
\* the concurrency the crawler starts with.
InitLong ==
    /\ InitWith(LongRegenTime, DesiredConcurrency,
                <<NewUnit(1), NewUnit(2), NewUnit(NoSession)>>)
    /\ max_session_rotations = MaxSessionRotations

\* a second passes while a task sleeps in get_random_rested_session or runs a
\* request handler, which takes at most MaxHandlerTime seconds from the moment
\* its session was handed out; a task whose sleep is over runs first
TickLong ==
    /\ \E t \in Tasks :
          \/ task[t].pc = "sleeping"
          \/ /\ task[t].pc = "running"
             /\ task[t].session # NoSession
             /\ now - last_used[task[t].session] < MaxHandlerTime
    /\ \A t \in Tasks : task[t].pc = "sleeping" => task[t].wake > now
    /\ now' = now + 1
    /\ UNCHANGED <<settings, data, pool, last_used, sess, queue, unit, task, aborted>>

NextLong == TickLong \/ \E t \in Tasks : Step(t)

SpecLong == InitLong /\ [][NextLong]_vars

(* ============================ properties ============================= *)
\* the step is task t's get_session() returning a session
GetSessionReturns(t) ==
    /\ task[t].pc \in {"fetched", "sleeping"}
    /\ unit[task[t].request].session_id = NoSession
    /\ task'[t].pc = "running"

\* the step is task t's get_session_by_id() returning, a session or None
ByIdReturns(t) ==
    /\ task[t].pc = "fetched"
    /\ unit[task[t].request].session_id # NoSession
    /\ task'[t].pc = "running"

\* task t is executing a unit with a session in hand
InFlightWith(t, s) == task[t].pc = "running" /\ task[t].session = s

\* task t is at a call of _get_random_rested_session()
AtSelection(t) ==
    \/ task[t].pc = "fetched" /\ unit[task[t].request].session_id = NoSession
    \/ /\ task[t].pc = "sleeping"
       /\ now >= task[t].wake
       /\ now - task[t].start_time <= WaitBudget

\* the cooldown has elapsed for s, as the specification words it
CooldownElapsed(s) == s \notin DOMAIN last_used \/ now - last_used[s] > regen_time

\* C1: Mutual exclusion: no session is held by two in-flight units at once.
C1_MutualExclusion ==
    \A t1, t2 \in Tasks : \A s \in SessionIds :
        InFlightWith(t1, s) /\ InFlightWith(t2, s) => t1 = t2

\* C2: Cooldown correctness: get_session() returns s at time t only if s was
\* never used or t - last_used[s] > cooldown, and every session of the pool for
\* which this holds is a candidate: a caller at its selection can be handed any
\* usable one of them.
C2_CooldownCorrectness ==
    [][\A t \in Tasks :
        /\ GetSessionReturns(t) => CooldownElapsed(task'[t].session)
        /\ \A s \in pool :
              AtSelection(t) /\ CooldownElapsed(s) /\ IsUsable(s)
                => ENABLED ((GetSession(t) \/ PollWake(t)) /\ task'[t].session = s)
      ]_vars

\* C2 witness: every unit takes its session from get_session(), and get_session()
\* has just handed out a session that an earlier unit had used
C2_Witness ==
    /\ \A u \in UnitIds : unit[u].session_id = NoSession
    /\ \E t \in Tasks :
        /\ task[t].pc = "running"
        /\ sess[task[t].session].usage_count > 0
        /\ last_used[task[t].session] = now

\* C3: Serialized selection: two get_session() calls never return the same
\* session on the basis of the same last_used value: the step in which
\* get_session() returns a session also writes its last_used, so in the state it
\* leaves the session is not rested for any other caller.
C3_SerializedSelection ==
    [][\A t \in Tasks :
        GetSessionReturns(t) =>
            LET s == task'[t].session IN
            /\ s \in DOMAIN last_used'
            /\ last_used'[s] = now
            /\ s \notin RestedSessions(pool)'
      ]_vars

\* C3 witness: two get_session() callers are in flight with the same session at
\* once, the second handed it after the cooldown while the first still ran
C3_Witness ==
    \E s \in SessionIds :
        \A t \in Tasks :
            InFlightWith(t, s) /\ unit[task[t].request].session_id = NoSession

\* C4: every session get_session() returns is usable at the moment it is returned.
C4_ReturnedUsable ==
    [][\A t \in Tasks : GetSessionReturns(t) => IsUsable(task'[t].session)]_vars

\* C5: once a session has been retired, neither get_session() nor
\* get_session_by_id() returns it, and no session is created to replace it.
C5_RetirementPermanent ==
    [][/\ \A t \in Tasks :
            (GetSessionReturns(t) \/ ByIdReturns(t)) /\ task'[t].session # NoSession
                => ~sess[task'[t].session].blocked
       /\ pool' \subseteq SessionIds
      ]_vars

C7_MonotonicShrink ==
    [][/\ \A s \in SessionIds : ~sess[s].blocked => s \in pool
       /\ \A t \in Tasks :
            GetSessionReturns(t) =>
                task'[t].session \in {s \in SessionIds : ~sess[s].blocked}
      ]_vars

\* the step is the rotation branch of "except SessionError", run by a task that
\* holds session s
RotationStep(s) ==
    \E t \in Tasks :
        /\ InFlightWith(t, s)
        /\ task'[t].pc = "idle"
        /\ unit'[task[t].request].state = "RECLAIMED"

\* C8: a session goes from usable to unusable only in the rotation
\* branch of the session-error handling, marking a session good never does it,
\* and an unusable session never becomes usable again.
C8_OnlyRotationRetires ==
    [][\A s \in SessionIds :
        /\ (IsUsable(s) /\ ~IsUsable(s)') => RotationStep(s)
        /\ ~IsUsable(s) => ~IsUsable(s)'
      ]_vars

\* C9: when no session is rested get_session() checks again one second later
\* and returns at the first check that finds a rested session it can use; a
\* check made when more than 30 minutes have passed since get_session() was
\* entered fails the acquisition; a session it returns is rested; and no caller
\* is ever found waiting longer than the budget and one interval.
C9_PollingWait ==
    [][\A t \in Tasks :
        /\ task[t].pc = "sleeping" => now - task[t].entered <= WaitBudget + PollInterval
        /\ (task'[t].pc = "sleeping" /\ task'[t] # task[t])
              => task'[t].wake = now + PollInterval
        /\ (task[t].pc = "sleeping" /\ task'[t] # task[t]) =>
              IF now - task[t].entered > WaitBudget
              THEN task'[t].pc = "crashed"
              ELSE /\ (\E s \in pool : IsRested(s) /\ IsUsable(s)) => GetSessionReturns(t)
                   /\ GetSessionReturns(t) => IsRested(task'[t].session)
      ]_vars

\* the step is task t leaving the try statement through the except clause of e
Caught(t, e) ==
    /\ task[t].pc = "running"
    /\ task'[t].pc # "running"
    /\ unit'[task[t].request].last_error = e

\* the sessions get_session() and get_session_by_id() may still hand out as usable
Selectable == {s \in pool : IsUsable(s)}

\* the step requeues unit u at the tail and does not mark it handled
Requeued(u) ==
    /\ queue' = Append(queue, u)
    /\ unit'[u].handled = unit[u].handled
    /\ unit'[u].failures = unit[u].failures

\* the step marks unit u handled as a failure and does not requeue it
HandledFailed(u) ==
    /\ queue' = queue
    /\ unit'[u].handled = unit[u].handled + 1
    /\ unit'[u].failures = unit[u].failures + 1

\* C11: Bounded retry, max_session_rotations = 2: a session-level error requeues
\* the unit while its session_rotation_count is below 2, each requeue counting
\* one rotation, so that a unit that always fails so is requeued exactly twice;
\* with the count at 2 the unit is marked handled-failed and not requeued.
C11_BoundedRetry ==
    [][\A t \in Tasks :
        Caught(t, "SessionError") =>
            LET u == task[t].request IN
            IF unit[u].session_rotation_count < max_session_rotations
            THEN /\ Requeued(u)
                 /\ unit'[u].session_rotation_count = unit[u].session_rotation_count + 1
            ELSE /\ HandledFailed(u)
                 /\ unit'[u].session_rotation_count = unit[u].session_rotation_count
      ]_vars

\* C12: max_session_rotations = 1: the first session-level error of a unit takes
\* its session_rotation_count from 0 to 1, retires its session (one selectable
\* session less) and requeues it; the next one marks it handled-failed.
C12_OneRotation ==
    [][\A t \in Tasks :
        Caught(t, "SessionError") =>
            LET u == task[t].request
                s == task[t].session IN
            IF unit[u].session_rotation_count = 0
            THEN /\ Requeued(u)
                 /\ unit'[u].session_rotation_count = 1
                 /\ Selectable' = Selectable \ {s}
                 /\ Cardinality(Selectable') = Cardinality(Selectable) - 1
            ELSE HandledFailed(u)
      ]_vars

\* C13: a unit's session_rotation_count never exceeds max_session_rotations; it
\* changes only when a session-level error requeues the unit, by one, and every
\* such requeue changes it; a session-level error that does not requeue the unit
\* marks it handled and failed.
C13_RetryBound ==
    [][\A u \in DOMAIN unit :
        /\ unit[u].session_rotation_count <= max_session_rotations
        /\ unit'[u].session_rotation_count # unit[u].session_rotation_count =>
              /\ unit'[u].session_rotation_count = unit[u].session_rotation_count + 1
              /\ Requeued(u)
              /\ \E t \in Tasks : task[t].request = u /\ Caught(t, "SessionError")
        /\ \A t \in Tasks :
              task[t].request = u /\ Caught(t, "SessionError") =>
                 \/ /\ Requeued(u)
                    /\ unit'[u].session_rotation_count = unit[u].session_rotation_count + 1
                    /\ unit'[u].session_rotation_count <= max_session_rotations
                 \/ /\ HandledFailed(u)
                    /\ unit'[u].session_rotation_count = unit[u].session_rotation_count
      ]_vars

\* C13 witness: a unit used up its rotations and was then marked handled and
\* failed on a further session-level error
C13_Witness ==
    \E u \in DOMAIN unit :
        /\ unit[u].last_error = "SessionError"
        /\ unit[u].state = "FAILED"
        /\ unit[u].handled = 1
        /\ unit[u].session_rotation_count > 0
        /\ unit[u].session_rotation_count + 1 >= max_session_rotations

C15_IdentityRotation ==
    [][\A t \in Tasks :
        LET u == task[t].request IN
        /\ task[t].pc = "fetched"
        /\ unit[u].session_id # NoSession
        /\ unit[u].session_rotation_count > 0
        /\ task'[t].pc = "running"
        => /\ task'[t].session # NoSession
           /\ ~sess[task'[t].session].blocked
      ]_vars

\* C16: a unit whose session_id names a retired or absent session gets None from
\* the lookup, which changes no session state and does not wait; the task's next
\* step, which is enabled, is the collision handling: no_retry is set, the unit
\* is marked handled as a failure and not requeued, the handler is not reached,
\* no session state changes; a unit so marked is never changed or queued again.
C16_PinnedToRetired ==
    [][/\ \A t \in Tasks :
            LET u == task[t].request IN
            /\ (ByIdReturns(t) /\ unit[u].session_id \notin Selectable) =>
                  /\ task'[t].session = NoSession
                  /\ sess' = sess /\ pool' = pool /\ last_used' = last_used
            /\ (task[t].pc = "running" /\ task[t].session = NoSession) =>
                  /\ ENABLED Collision(t)
                  /\ task'[t] # task[t] =>
                        /\ Caught(t, "RequestCollisionError")
                        /\ task'[t].pc = "idle"
                        /\ unit'[u].no_retry
                        /\ HandledFailed(u)
                        /\ unit'[u].handler_reached = unit[u].handler_reached
                        /\ unit'[u].committed = unit[u].committed
                        /\ sess' = sess /\ pool' = pool /\ last_used' = last_used
                        /\ aborted' = aborted
       /\ \A u \in DOMAIN unit :
            unit[u].no_retry =>
                /\ unit'[u] = unit[u]
                /\ \A i \in DOMAIN queue' : queue'[i] # u
      ]_vars

\* C16 witness: a unit bound to a session that was retired under it has been
\* marked handled and failed by the collision handling
C16_Witness ==
    \E u \in DOMAIN unit :
        /\ unit[u].last_error = "RequestCollisionError"
        /\ unit[u].no_retry
        /\ unit[u].state = "FAILED"
        /\ unit[u].handled = 1
        /\ unit[u].session_id # NoSession
        /\ sess[unit[u].session_id].blocked

\* C17: an exception raised by the request handler, or by the initialization of
\* the context pipeline, is never retried: in that same execution the unit is
\* marked handled as a failure and not requeued, no session is retired, the
\* session_rotation_count is unchanged and the run is not aborted.
C17_HandlerErrorTerminal ==
    [][\A t \in Tasks :
        LET u == task[t].request IN
        (\/ Caught(t, "RequestHandlerError")
         \/ Caught(t, "ContextPipelineInitializationError")) =>
            /\ HandledFailed(u)
            /\ unit'[u].retry_count = unit[u].retry_count
            /\ unit'[u].session_rotation_count = unit[u].session_rotation_count
            /\ sess' = sess
            /\ aborted' = aborted
      ]_vars

\* C18: when the pipeline is interrupted the unit is marked handled, once in
\* all; no result is committed, the unit is not requeued, no failure is recorded,
\* the session is neither retired nor marked good, the session_rotation_count is
\* unchanged, and the exception does not leave the task.
C18_InterruptedHandled ==
    [][\A t \in Tasks :
        LET u == task[t].request IN
        Caught(t, "ContextPipelineInterruptedError") =>
            /\ unit'[u].handled = 1
            /\ unit[u].handled = 0
            /\ unit'[u].committed = unit[u].committed
            /\ unit'[u].failures = unit[u].failures
            /\ unit'[u].session_rotation_count = unit[u].session_rotation_count
            /\ unit'[u].retry_count = unit[u].retry_count
            /\ queue' = queue
            /\ sess' = sess /\ pool' = pool
            /\ task'[t].pc = "idle"
            /\ aborted' = aborted
      ]_vars

\* C18 witness: a unit was interrupted and is marked handled, nothing committed
C18_Witness ==
    \E u \in DOMAIN unit :
        /\ unit[u].state = "INTERRUPTED"
        /\ unit[u].handled = 1
        /\ ~unit[u].committed
        /\ \E s \in SessionIds : s \in DOMAIN last_used /\ ~sess[s].blocked /\ sess[s].usage_count = 0

\* C19: an unclassified exception leaves the task: the unit is neither marked
\* handled nor requeued, no session changes, and the run is aborted; once the run
\* is aborted it stays so and no request is fetched.
C19_UnclassifiedAborts ==
    [][/\ \A t \in Tasks :
            LET u == task[t].request IN
            Caught(t, "Exception") =>
                /\ task'[t].pc = "crashed"
                /\ aborted'
                /\ unit'[u].handled = unit[u].handled
                /\ unit'[u].failures = unit[u].failures
                /\ unit'[u].state = unit[u].state
                /\ queue' = queue
                /\ sess' = sess
       /\ aborted =>
            /\ aborted'
            /\ \A t \in Tasks : task'[t].pc = "fetched" => task[t].pc = "fetched"
            /\ \A u \in DOMAIN unit :
                  unit[u].state = "UNPROCESSED" => unit'[u].state = "UNPROCESSED"
      ]_vars

\* C19 witness: the run was aborted by an unclassified exception while requests
\* were still waiting in the queue
C19_Witness ==
    /\ aborted
    /\ queue # <<>>
    /\ \E t \in Tasks :
        /\ task[t].pc = "crashed"
        /\ unit[task[t].request].last_error = "Exception"
        /\ unit[task[t].request].handled = 0

\* C20: when the last of the 3 attempts of a queue operation (fetching the next
\* request, marking a request handled) has timed out, the run is not aborted, and
\* the unit at hand, if any, is marked handled as a failure.
C20_TimeoutFailsUnitOnly ==
    \A t \in Tasks :
        task[t].tries >= InternalMaxRetries =>
            /\ ~aborted
            /\ task[t].request # NoUnit =>
                  /\ unit[task[t].request].state = "FAILED"
                  /\ unit[task[t].request].handled = 1

\* The success path step by step, in a run where other requests hit session
\* errors; the clock stands still.
StepSuccess(t) ==
    \/ Fetch(t)
    \/ ResolveById(t)
    \/ GetSession(t)
    \/ Collision(t)
    \/ CommitResult(t)
    \/ MarkHandledRetried(t)
    \/ HandlerSessionError(t)

NextSuccess == \E t \in Tasks : StepSuccess(t)

SpecSuccess == Init /\ [][NextSuccess]_vars

(* ------------------------- User ------------------------------------- *)
\* a str is a sequence of characters
Prefix == <<"s", "e", "s", "s", "i", "o", "n", "-">>

DigitChars == <<"0", "1", "2", "3", "4", "5", "6", "7", "8", "9">>

\* str(n) for n >= 0
RECURSIVE StrNat(_)
StrNat(n) ==
    IF n < Len(DigitChars) THEN <<DigitChars[n + 1]>>
    ELSE StrNat(n \div Len(DigitChars)) \o <<DigitChars[(n % Len(DigitChars)) + 1]>>

\* str(n), as the f-string formats an int
Str(n) == IF n < 0 THEN <<"-">> \o StrNat(-n) ELSE StrNat(n)

\* mutant of UserSessionId: the sign of the id is dropped
UserSessionIdUnsigned(user_id) ==
    Prefix \o (IF user_id < 0 THEN Str(-user_id) ELSE Str(user_id))

\* User.session_id: f"session-{self.user_id}"
UserSessionId(user_id) == Prefix \o Str(user_id)

StartsWith(s, old) == Len(s) >= Len(old) /\ SubSeq(s, 1, Len(old)) = old

\* s.replace(old, ""): every occurrence of old, from the left, is removed
RECURSIVE Replace(_, _)
Replace(s, old) ==
    IF s = <<>> THEN <<>>
    ELSE IF StartsWith(s, old) THEN Replace(SubSeq(s, Len(old) + 1, Len(s)), old)
    ELSE <<Head(s)>> \o Replace(Tail(s), old)

IsDigits(s) == s # <<>> /\ \A i \in DOMAIN s : \E d \in DOMAIN DigitChars : DigitChars[d] = s[i]

DigitValue(c) == (CHOOSE d \in DOMAIN DigitChars : DigitChars[d] = c) - 1

RECURSIVE NatOf(_)
NatOf(s) ==
    IF s = <<>> THEN 0
    ELSE NatOf(SubSeq(s, 1, Len(s) - 1)) * Len(DigitChars) + DigitValue(s[Len(s)])

\* int(s) for a string of digits with an optional minus sign; ValueError otherwise
ParseInt(s) ==
    IF IsDigits(s) THEN [raised |-> FALSE, value |-> NatOf(s)]
    ELSE IF s # <<>> /\ Head(s) = "-" /\ IsDigits(Tail(s))
         THEN [raised |-> FALSE, value |-> -NatOf(Tail(s))]
         ELSE [raised |-> TRUE, value |-> 0]

\* User.id_from_session_id: int(session_id.replace("session-", ""))
IdFromSessionId(session_id) == ParseInt(Replace(session_id, Prefix))

\* the user.user_data of an identity without extra data
NoExtra == [phase |-> "absent", note |-> "absent"]

\* User(user_id, proxy_ip, cookies, user_data); proxy addresses are numbered, a
\* cookie is a record of name and value, user_data holds the keys phase and note
\* or lacks them
MakeUser(id, proxy, cookies, extra) ==
    [user_id |-> id, proxy_ip |-> proxy, user_agent |-> "agent",
     cookies |-> cookies, user_data |-> extra]

\* a User with the given id and no data worth telling apart
PlainUser(id) == MakeUser(id, 0, <<>>, NoExtra)

UserIdRange == (-MaxUserId)..MaxUserId

(* ------------------------- create_requests --------------------------- *)
\* the request of the first loop: a visit of url bound to the user's session
VisitRequest(user, url) ==
    [url |-> url, method |-> "GET", label |-> "visit",
     session_id |-> UserSessionId(user.user_id), work_type |-> "BEFORE_START"]

\* mutant of WorkRequest: the work request is not bound to a session
WorkRequestUnpinned(work_unit, user) ==
    [url |-> work_unit.url, method |-> work_unit.method, label |-> "handler",
     session_id |-> <<>>, work_type |-> "WORK"]

\* the request of the second loop
WorkRequest(work_unit, user) ==
    [url |-> work_unit.url, method |-> work_unit.method, label |-> "handler",
     session_id |-> UserSessionId(user.user_id), work_type |-> "WORK"]

\* for user in users: for url in before_start_urls: requests.append(...)
RECURSIVE Visits(_, _)
Visits(us, urls) ==
    IF us = <<>> THEN <<>>
    ELSE [j \in DOMAIN urls |-> VisitRequest(Head(us), urls[j])] \o Visits(Tail(us), urls)

\* for i, work_unit in enumerate(work): user = users[i % len(users)]; ...
WorkRequests(w, us) ==
    [n \in DOMAIN w |-> WorkRequest(w[n], us[((n - 1) % Len(us)) + 1])]

\* mutant of CreateRequests: the work requests come first
CreateRequestsWorkFirst(w, urls, us) ==
    IF w # <<>> /\ us = <<>> THEN [raised |-> TRUE, list |-> <<>>]
    ELSE [raised |-> FALSE, list |-> WorkRequests(w, us) \o Visits(us, urls)]

\* create_requests(work, before_start_urls, users, handler_name); users[i % 0]
\* raises ZeroDivisionError
CreateRequests(w, urls, us) ==
    IF w # <<>> /\ us = <<>> THEN [raised |-> TRUE, list |-> <<>>]
    ELSE [raised |-> FALSE, list |-> Visits(us, urls) \o WorkRequests(w, us)]

\* get_crawler: requests = create_requests(work, before_start_urls, users, handler_name)
GetCrawler ==
    /\ ~requests.made
    /\ requests' = [made |-> TRUE, result |-> CreateRequests(work, before_start_urls, users)]
    /\ UNCHANGED <<now, settings, pool, last_used, sess, queue, unit, task, aborted,
                   users, before_start_urls, work, sessions, written_back, run>>

\* The submission of a run: one to NumUsers identities with distinct ids, up to
\* MaxUrls warm-up URLs and up to MaxWork work units.
InitSurface ==
    /\ \E n \in 1..NumUsers : \E ids \in [1..n -> UserIdRange] :
          /\ \A i, j \in 1..n : ids[i] = ids[j] => i = j
          /\ users = [i \in 1..n |-> PlainUser(ids[i])]
    /\ \E n \in 0..MaxUrls : before_start_urls = [j \in 1..n |-> j]
    /\ \E n \in 0..MaxWork : work = [k \in 1..n |-> [url |-> MaxUrls + k, method |-> "POST"]]
    /\ requests = [made |-> FALSE, result |-> [raised |-> FALSE, list |-> <<>>]]
    /\ sessions = <<>>
    /\ written_back = <<>>
    /\ run = <<>>
    /\ now = 0
    /\ regen_time = RegenTime
    /\ max_session_rotations = MaxSessionRotations
    /\ concurrency = MaxConcurrency
    /\ pool = {}
    /\ last_used = [s \in {} |-> 0]
    /\ sess = [s \in {} |-> 0]
    /\ queue = <<>>
    /\ unit = <<>>
    /\ task = [t \in Tasks |-> IdleTask]
    /\ aborted = FALSE

NextSurface == GetCrawler

SpecSurface == InitSurface /\ [][NextSurface]_vars

(* ------------------ Session data, SessionPool write-back -------------- *)
\* Session.phase: self.user_data.get("phase", "FINAL")
Phase(s) == IF s.user_data.phase = "absent" THEN "FINAL" ELSE s.user_data.phase

\* Session.is_in_discovery_phase
IsInDiscoveryPhase(s) == Phase(s) = "DISCOVERY"

\* Session.turn_to_final_phase
TurnToFinalPhase(s) == [s EXCEPT !.user_data.phase = "FINAL"]

\* mutant of TurnToDiscoveryPhase: the phase is flipped
TurnToDiscoveryPhaseFlips(s) ==
    [s EXCEPT !.user_data.phase = IF Phase(s) = "DISCOVERY" THEN "FINAL" ELSE "DISCOVERY"]

\* Session.turn_to_discovery_phase
TurnToDiscoveryPhase(s) == [s EXCEPT !.user_data.phase = "DISCOVERY"]

\* Session(id=user.session_id, user_data={proxy_url, user_agent, cookies} | user.user_data,
\* cookies=user.cookies): the keys of user.user_data win
NewSession(user) ==
    [id |-> UserSessionId(user.user_id),
     user_data |-> [proxy_url |-> user.proxy_ip, user_agent |-> user.user_agent,
                    cookies |-> [kind |-> "list", items |-> user.cookies],
                    phase |-> user.user_data.phase, note |-> user.user_data.note],
     cookies |-> user.cookies,
     blocked |-> FALSE]

\* the last user of the list with session id k: a later dict entry replaces an
\* earlier one with the same key
LastWithKey(us, k) ==
    CHOOSE i \in DOMAIN us :
        /\ UserSessionId(us[i].user_id) = k
        /\ \A j \in DOMAIN us : UserSessionId(us[j].user_id) = k => j <= i

\* mutant of CreateSessionsFromUsers: every session is built from the first user
CreateSessionsFromFirstUser(us) ==
    [k \in {UserSessionId(us[i].user_id) : i \in DOMAIN us} |->
        [NewSession(us[1]) EXCEPT !.id = k]]

\* SessionPool.create_sessions_from_users: {user.session_id: Session(...) for user in users}
CreateSessionsFromUsers(us) ==
    [k \in {UserSessionId(us[i].user_id) : i \in DOMAIN us} |->
        NewSession(us[LastWithKey(us, k)])]

\* {cookie["name"]: cookie["value"] for cookie in session.cookies}
CookieDict(jar) ==
    [kind |-> "dict", items |-> {[name |-> jar[i].name, value |-> jar[i].value] : i \in DOMAIN jar}]

\* a | b of two values: defined for two dicts, where the entries of b win; a list
\* on the left raises TypeError
DictUnion(a, b) ==
    IF a.kind # "dict" \/ b.kind # "dict"
    THEN [raised |-> TRUE, value |-> b]
    ELSE [raised |-> FALSE,
          value |-> [kind |-> "dict",
                     items |-> b.items \cup
                               {c \in a.items : \A d \in b.items : d.name # c.name}]]

\* the User(...) expression of create_users_from_sessions for one session
UserFromSession(s) ==
    LET merged == DictUnion(s.user_data.cookies, CookieDict(s.cookies)) IN
    [raised |-> merged.raised,
     user |-> [user_id |-> IdFromSessionId(s.id).value,
               proxy_ip |-> s.user_data.proxy_url,
               user_agent |-> s.user_data.user_agent,
               cookies |-> merged.value,
               user_data |-> [note |-> s.user_data.note]]]

\* the keys of the session map in the order of their insertion
KeysInOrder(ss) ==
    LET keys == [i \in DOMAIN users |-> UserSessionId(users[i].user_id)]
        Present(k) == k \in DOMAIN ss
    IN  SelectSeq(keys, Present)

\* SessionPool.create_users_from_sessions
CreateUsersFromSessions(ss) ==
    IF \E k \in DOMAIN ss : UserFromSession(ss[k]).raised
    THEN [called |-> TRUE, raised |-> "TypeError", users |-> <<>>]
    ELSE [called |-> TRUE, raised |-> "none",
          users |-> [n \in DOMAIN KeysInOrder(ss) |-> UserFromSession(ss[KeysInOrder(ss)[n]]).user]]

UnchangedRun ==
    UNCHANGED <<now, settings, pool, last_used, sess, queue, unit, task, aborted,
                users, before_start_urls, work, requests, run>>

\* context.continue_discovery() in a request handler that holds session k
ContinueDiscovery(k) ==
    /\ ~written_back.called
    /\ sessions' = [sessions EXCEPT ![k] = TurnToDiscoveryPhase(@)]
    /\ UNCHANGED written_back
    /\ UnchangedRun

\* context.finalize_discovery() in a request handler that holds session k
FinalizeDiscovery(k) ==
    /\ ~written_back.called
    /\ sessions' = [sessions EXCEPT ![k] = TurnToFinalPhase(@)]
    /\ UNCHANGED written_back
    /\ UnchangedRun

\* context.session.cookies.set_cookies_from_playwright_format(pw_cookies): the
\* page set the cookie "sid"
SetCookies(k) ==
    /\ ~written_back.called
    /\ sessions' = [sessions EXCEPT ![k].cookies = <<[name |-> "sid", value |-> "new"]>>]
    /\ UNCHANGED written_back
    /\ UnchangedRun

\* context.session.retire() after a session error
RetireSession(k) ==
    /\ ~written_back.called
    /\ ~sessions[k].blocked
    /\ sessions' = [sessions EXCEPT ![k].blocked = TRUE]
    /\ UNCHANGED written_back
    /\ UnchangedRun

\* self._remove_retired_sessions() in get_session
RemoveRetiredSessions ==
    /\ ~written_back.called
    /\ \E k \in DOMAIN sessions : sessions[k].blocked
    /\ sessions' = [k \in {x \in DOMAIN sessions : ~sessions[x].blocked} |-> sessions[k]]
    /\ UNCHANGED written_back
    /\ UnchangedRun

\* users = crawler._session_pool.create_users_from_sessions() after crawler.run()
WriteBack ==
    /\ ~written_back.called
    /\ written_back' = CreateUsersFromSessions(sessions)
    /\ UNCHANGED sessions
    /\ UnchangedRun

\* The pool built from one to NumUsers identities with ids 1, 2, ..., each with
\* its own proxy, with or without a starting cookie and a phase in its user_data.
InitIdentities ==
    /\ \E n \in 1..NumUsers :
       \E cs \in [1..n -> {<<>>, <<[name |-> "sid", value |-> "old"]>>}] :
       \E ps \in [1..n -> {"absent", "DISCOVERY"}] :
          users = [i \in 1..n |-> MakeUser(i, i, cs[i], [phase |-> ps[i], note |-> "absent"])]
    /\ sessions = CreateSessionsFromUsers(users)
    /\ written_back = [called |-> FALSE, raised |-> "none", users |-> <<>>]
    /\ run = <<>>
    /\ before_start_urls = <<>>
    /\ work = <<>>
    /\ requests = <<>>
    /\ now = 0
    /\ regen_time = RegenTime
    /\ max_session_rotations = MaxSessionRotations
    /\ concurrency = MaxConcurrency
    /\ pool = {}
    /\ last_used = [s \in {} |-> 0]
    /\ sess = [s \in {} |-> 0]
    /\ queue = <<>>
    /\ unit = <<>>
    /\ task = [t \in Tasks |-> IdleTask]
    /\ aborted = FALSE

StepIdentities(k) ==
    \/ ContinueDiscovery(k)
    \/ FinalizeDiscovery(k)
    \/ SetCookies(k)
    \/ RetireSession(k)

NextIdentities ==
    \/ RemoveRetiredSessions
    \/ WriteBack
    \/ \E k \in DOMAIN sessions : StepIdentities(k)

SpecIdentities == InitIdentities /\ [][NextIdentities]_vars

\* The run whose request handler may run into its timeout; the clock stands still
\* as in SpecOutcomes.
StepTimeout(t) ==
    \/ Fetch(t)
    \/ ResolveById(t)
    \/ GetSession(t)
    \/ HandlerSuccess(t)
    \/ HandlerSessionError(t)
    \/ HandlerTimeout(t)
    \/ Unclassified(t)

NextTimeout == \E t \in Tasks : StepTimeout(t)

SpecTimeout == Init /\ [][NextTimeout]_vars

\* the session a request names, as the executor reads it: if request.session_id
\* is false for None and for the empty string
SessionOf(request) ==
    IF request.session_id = <<>> THEN NoSession
    ELSE IdFromSessionId(request.session_id).value

\* the unit of the queue made from a request of create_requests
UnitOf(request) == [NewUnit(SessionOf(request)) EXCEPT !.work_type = request.work_type]

\* The run of a submission: get_crawler has built the pool from 1 to NumUsers
\* identities (numbered from 1), expanded up to MaxUrls warm-up URLs and up to
\* MaxWork work units with create_requests and added the requests to the queue
\* in list order; the in-flight cap is 1 or MaxConcurrency.
InitWarmup ==
    /\ \E n \in 1..NumUsers :
          /\ users = [i \in 1..n |-> PlainUser(i)]
          /\ pool = 1..n
          /\ sess = [s \in 1..n |-> [blocked |-> FALSE, usage_count |-> 0]]
    /\ \E n \in 0..MaxUrls : before_start_urls = [j \in 1..n |-> j]
    /\ \E n \in 0..MaxWork : work = [k \in 1..n |-> [url |-> MaxUrls + k, method |-> "POST"]]
    /\ requests = [made |-> TRUE, result |-> CreateRequests(work, before_start_urls, users)]
    /\ unit = [i \in DOMAIN requests.result.list |-> UnitOf(requests.result.list[i])]
    /\ queue = [i \in DOMAIN requests.result.list |-> i]
    /\ sessions = <<>>
    /\ written_back = <<>>
    /\ run = <<>>
    /\ now = 0
    /\ regen_time = RegenTime
    /\ max_session_rotations = MaxSessionRotations
    /\ concurrency \in {DesiredConcurrency, MaxConcurrency}
    /\ last_used = [s \in {} |-> 0]
    /\ task = [t \in Tasks |-> IdleTask]
    /\ aborted = FALSE

StepWarmup(t) ==
    \/ Fetch(t)
    \/ ResolveById(t)
    \/ Collision(t)
    \/ HandlerSuccess(t)
    \/ HandlerSessionError(t)

NextWarmup == \E t \in Tasks : StepWarmup(t)

SpecWarmup == InitWarmup /\ [][NextWarmup]_vars

\* The same run with the in-flight cap at DesiredConcurrency: which session a
\* unit names, and which lookup its dispatch takes, do not depend on the cap.
InitPinned == InitWarmup /\ concurrency = DesiredConcurrency

SpecPinned == InitPinned /\ [][NextWarmup]_vars

\* unique_key=f"visit_{user.session_id}{random.randint(0, 10000)}" with the
\* random number r
VisitKey(user, r) ==
    <<"v", "i", "s", "i", "t", "_">> \o UserSessionId(user.user_id) \o Str(r)

\* the requests of the first loop with their unique keys; rs[n] is the random
\* number drawn for request number n
VisitsKeyed(us, urls, rs) ==
    [n \in 1..(Len(us) * Len(urls)) |->
        LET user == us[((n - 1) \div Len(urls)) + 1]
            url == urls[((n - 1) % Len(urls)) + 1]
        IN  VisitRequest(user, url) @@ [unique_key |-> VisitKey(user, rs[n])]]

\* the requests of the second loop: unique_key=None, the key is computed from
\* the URL of the request
WorkKeyed(w, us) ==
    [n \in DOMAIN w |->
        WorkRequests(w, us)[n] @@ [unique_key |-> <<"u", "r", "l", "_">> \o Str(w[n].url)]]

\* create_requests with the random numbers rs
CreateRequestsKeyed(w, urls, us, rs) ==
    IF w # <<>> /\ us = <<>> THEN [raised |-> TRUE, list |-> <<>>]
    ELSE [raised |-> FALSE, list |-> VisitsKeyed(us, urls, rs) \o WorkKeyed(w, us)]

\* crawler.add_requests(requests): the numbers of the requests the queue takes,
\* from number i on; a request whose unique key the queue already holds is dropped
RECURSIVE AddRequests(_, _)
AddRequests(list, i) ==
    IF i > Len(list) THEN <<>>
    ELSE (IF \E j \in 1..(i - 1) : list[j].unique_key = list[i].unique_key
          THEN <<>> ELSE <<i>>) \o AddRequests(list, i + 1)

\* get_crawler: create_requests(...) and crawler.add_requests(requests=requests)
GetCrawlerKeyed ==
    /\ ~requests.made
    /\ \E rs \in [1..(Len(users) * Len(before_start_urls)) -> 0..MaxRandom] :
          LET result == CreateRequestsKeyed(work, before_start_urls, users, rs) IN
          /\ requests' = [made |-> TRUE, result |-> result]
          /\ queue' = AddRequests(result.list, 1)
    /\ UNCHANGED <<now, settings, pool, last_used, sess, unit, task, aborted,
                   users, before_start_urls, work, sessions, written_back, run>>

\* The submission of a run with the unique keys of its requests; the queue holds
\* the numbers of the requests it took.
NextKeys == GetCrawlerKeyed

SpecKeys == InitSurface /\ [][NextKeys]_vars

(* ------------------------- ScraperStorage.start_run ------------------ *)
\* the awaited calls of start_run in the order of its lines
StartRunOrder ==
    <<"create_run_info", "create_actor_info", "mark_run_as_started", "crawler.run",
      "mark_run_as_completed", "bronze.storage.close", "silver.storage.close",
      "create_users_from_sessions", "update_users", "drop">>

\* what start_run leaves unchanged
UnchangedByStartRun ==
    UNCHANGED <<now, settings, pool, last_used, sess, queue, unit, task, aborted,
                users, before_start_urls, work, requests>>

\* start_run is at the call named name: every call before it has returned
AtCall(name) ==
    /\ run.raised = "none"
    /\ Len(run.steps) < Len(StartRunOrder)
    /\ StartRunOrder[Len(run.steps) + 1] = name

\* a call of start_run that reads and writes none of the session data
Call(name) ==
    /\ AtCall(name)
    /\ run' = [run EXCEPT !.steps = Append(@, name)]
    /\ UNCHANGED <<sessions, written_back>>
    /\ UnchangedByStartRun

\* await self.bronze.create_run_info(run_info)
CreateRunInfo == Call("create_run_info")

\* await self.bronze.create_actor_info(actor_info)
CreateActorInfo == Call("create_actor_info")

\* await self.bronze.mark_run_as_started()
MarkRunAsStarted == Call("mark_run_as_started")

\* await crawler.run(): the crawl retires the sessions of the set retired; purged
\* tells whether a get_session() removed them from the map, which needs a retired
\* session and raises on a map left empty; fatal tells whether an exception left
\* __run_task_function and with it crawler.run()
CrawlerRun ==
    /\ AtCall("crawler.run")
    /\ \E retired \in SUBSET DOMAIN sessions : \E purged, fatal \in BOOLEAN :
          /\ purged => retired # {}
          /\ (purged /\ retired = DOMAIN sessions) => fatal
          /\ sessions' =
                IF purged THEN [k \in DOMAIN sessions \ retired |-> sessions[k]]
                ELSE [k \in DOMAIN sessions |->
                         [sessions[k] EXCEPT !.blocked = @ \/ k \in retired]]
          /\ run' = [steps |-> Append(run.steps, "crawler.run"),
                     raised |-> IF fatal THEN "Exception" ELSE "none"]
    /\ UNCHANGED written_back
    /\ UnchangedByStartRun

\* await self.bronze.mark_run_as_completed()
MarkRunAsCompleted == Call("mark_run_as_completed")

\* await self.bronze.storage.close()
CloseBronze == Call("bronze.storage.close")

\* await self.silver.storage.close()
CloseSilver == Call("silver.storage.close")

\* users = crawler._session_pool.create_users_from_sessions(): an exception of the
\* call leaves start_run
SnapshotUsers ==
    /\ AtCall("create_users_from_sessions")
    /\ written_back' = CreateUsersFromSessions(sessions)
    /\ run' = [steps |-> Append(run.steps, "create_users_from_sessions"),
               raised |-> written_back'.raised]
    /\ UNCHANGED sessions
    /\ UnchangedByStartRun

\* await User.update_users(self.api_client, users)
UpdateUsers == Call("update_users")

\* await crawler._request_manager.drop()
DropQueue == Call("drop")

\* The run of start_run on a pool built from 0 to NumUsers identities.
InitRun ==
    /\ \E n \in 0..NumUsers :
       \E cs \in [1..n -> {<<>>, <<[name |-> "sid", value |-> "old"]>>}] :
          users = [i \in 1..n |-> MakeUser(i, i, cs[i], NoExtra)]
    /\ sessions = CreateSessionsFromUsers(users)
    /\ written_back = [called |-> FALSE, raised |-> "none", users |-> <<>>]
    /\ run = [steps |-> <<>>, raised |-> "none"]
    /\ before_start_urls = <<>>
    /\ work = <<>>
    /\ requests = <<>>
    /\ now = 0
    /\ regen_time = RegenTime
    /\ max_session_rotations = MaxSessionRotations
    /\ concurrency = MaxConcurrency
    /\ pool = {}
    /\ last_used = [s \in {} |-> 0]
    /\ sess = [s \in {} |-> 0]
    /\ queue = <<>>
    /\ unit = <<>>
    /\ task = [t \in Tasks |-> IdleTask]
    /\ aborted = FALSE

NextRun ==
    \/ CreateRunInfo
    \/ CreateActorInfo
    \/ MarkRunAsStarted
    \/ CrawlerRun
    \/ MarkRunAsCompleted
    \/ CloseBronze
    \/ CloseSilver
    \/ SnapshotUsers
    \/ UpdateUsers
    \/ DropQueue

SpecRun == InitRun /\ [][NextRun]_vars

\* The run of a work list without session_id under fair scheduling: every task
\* that can take a step eventually takes one, and time passes.  The handler may
\* end in any of the outcomes that the try statement handles itself.
InitLive ==
    /\ InitWith(RegenTime, MaxConcurrency, [i \in UnitIds |-> NewUnit(NoSession)])
    /\ max_session_rotations = MaxSessionRotations

StepLive(t) ==
    \/ Fetch(t)
    \/ GetSession(t)
    \/ PollWake(t)
    \/ HandlerSuccess(t)
    \/ HandlerSessionError(t)
    \/ HandlerError(t)
    \/ InitializationError(t)
    \/ Interrupted(t)

NextLive == TickLong \/ \E t \in Tasks : StepLive(t)

SpecLive ==
    /\ InitLive
    /\ [][NextLive]_vars
    /\ WF_vars(TickLong)
    /\ \A t \in Tasks : WF_vars(StepLive(t))

\* C21: under fair scheduling every submitted unit without session_id is
\* eventually marked handled (as done or as failed), whatever the handler does,
\* and no get_session() waits longer than the 30 minutes of its budget.
C21_AllUnitsEnd ==
    /\ \A u \in UnitIds : <>(unit[u].handled >= 1)
    /\ [](\A t \in Tasks : task[t].pc = "sleeping" => now - task[t].entered <= WaitBudget)

\* the dispatch of task t ends in this step
DispatchEnds(t) ==
    /\ task[t].pc \in {"fetched", "running", "sleeping", "marking"}
    /\ task'[t].pc \in {"idle", "crashed"}

C30_Counters ==
    [][\A u \in DOMAIN unit :
        /\ unit'[u].state = "FAILED" =>
              /\ unit'[u].failures = 1
              /\ unit'[u].finished = 0
              /\ unit'[u].handled = 1
        /\ unit'[u].state = "DONE" =>
              /\ unit'[u].finished = 1
              /\ unit'[u].failures = 0
        /\ unit'[u].failures + unit'[u].finished <= 1
        /\ unit'[u].failures # unit[u].failures =>
              /\ unit'[u].state = "FAILED"
              /\ aborted' = aborted
      ]_vars

\* C30 witness: one unit failed on a handler error and one unit is done, each
\* with its counter, and the run goes on
C30_Witness ==
    /\ ~aborted
    /\ \E u, v \in DOMAIN unit :
        /\ unit[u].state = "FAILED"
        /\ unit[u].last_error = "RequestHandlerError"
        /\ unit[u].failures = 1
        /\ unit[v].state = "DONE"
        /\ unit[v].finished = 1

\* C23: for U >= 1 identities, W warm-up URLs and K work units create_requests
\* returns U*W requests tagged BEFORE_START, exactly one for each identity and
\* warm-up URL and bound to that identity's session id, followed by K requests
\* tagged WORK in the order of the work list.
C23_WarmupExpansion ==
    requests.made =>
        LET U == Len(users)
            W == Len(before_start_urls)
            K == Len(work)
            L == requests.result.list
        IN  /\ ~requests.result.raised
            /\ Len(L) = U * W + K
            /\ \A n \in 1..(U * W) : L[n].work_type = "BEFORE_START"
            /\ \A i \in 1..U : \A j \in 1..W :
                  Cardinality({n \in 1..(U * W) :
                                  /\ L[n].session_id = UserSessionId(users[i].user_id)
                                  /\ L[n].url = before_start_urls[j]}) = 1
            /\ \A k \in 1..K :
                  /\ L[U * W + k].work_type = "WORK"
                  /\ L[U * W + k].url = work[k].url

\* C23 witness: requests were made for at least two identities, two warm-up URLs
\* and two work units
C23_Witness ==
    /\ requests.made
    /\ Len(users) >= 2
    /\ Len(before_start_urls) >= 2
    /\ Len(work) >= 2
    /\ Len(requests.result.list) = Len(users) * Len(before_start_urls) + Len(work)

\* C28: the session id of an identity is "session-" followed by the decimal form
\* of its id; id_from_session_id gives the id back, for the identities and for
\* every request made for them; identities with distinct ids have distinct
\* session ids.
C28_SessionIdRoundTrip ==
    /\ \A i \in DOMAIN users :
          LET sid == UserSessionId(users[i].user_id) IN
          /\ StartsWith(sid, Prefix)
          /\ SubSeq(sid, Len(Prefix) + 1, Len(sid)) = Str(users[i].user_id)
          /\ IdFromSessionId(sid) = [raised |-> FALSE, value |-> users[i].user_id]
          /\ \A j \in DOMAIN users :
                sid = UserSessionId(users[j].user_id) => i = j
    /\ requests.made =>
          \A n \in DOMAIN requests.result.list :
              \E i \in DOMAIN users :
                  IdFromSessionId(requests.result.list[n].session_id) =
                      [raised |-> FALSE, value |-> users[i].user_id]

\* C28 witness: requests were made for an identity with a negative id and one
\* with an id of two digits
C28_Witness ==
    /\ requests.made
    /\ requests.result.list # <<>>
    /\ \E i, j \in DOMAIN users :
          /\ users[i].user_id < 0
          /\ users[j].user_id >= Len(DigitChars)

\* C24: for every session, whatever its phase: after continue_discovery() the
\* phase is DISCOVERY and after finalize_discovery() it is FINAL; a transition
\* applied twice gives what it gives applied once; finalize_discovery() then
\* continue_discovery() gives DISCOVERY; is_in_discovery_phase() is true exactly
\* in phase DISCOVERY.
C24_PhaseIdempotence ==
    \A k \in DOMAIN sessions :
        LET s == sessions[k] IN
        /\ Phase(TurnToDiscoveryPhase(s)) = "DISCOVERY"
        /\ Phase(TurnToFinalPhase(s)) = "FINAL"
        /\ TurnToDiscoveryPhase(TurnToDiscoveryPhase(s)) = TurnToDiscoveryPhase(s)
        /\ TurnToFinalPhase(TurnToFinalPhase(s)) = TurnToFinalPhase(s)
        /\ Phase(TurnToDiscoveryPhase(TurnToFinalPhase(s))) = "DISCOVERY"
        /\ IsInDiscoveryPhase(s) = (Phase(s) = "DISCOVERY")
        /\ IsInDiscoveryPhase(TurnToDiscoveryPhase(s))
        /\ ~IsInDiscoveryPhase(TurnToFinalPhase(s))
        /\ Phase(s) \in {"DISCOVERY", "FINAL"}

\* C24 witness: one session was driven to DISCOVERY and another one to FINAL
C24_Witness ==
    \E k, l \in DOMAIN sessions :
        /\ sessions[k].user_data.phase = "DISCOVERY"
        /\ sessions[l].user_data.phase = "FINAL"
        /\ \E i \in DOMAIN users :
              /\ UserSessionId(users[i].user_id) = k
              /\ users[i].user_data.phase = "absent"

\* C25: every session built from an identity starts in phase FINAL, whatever the
\* identity's user_data holds, and leaves FINAL only by continue_discovery() on
\* that session.
C25_StartsFinal ==
    /\ \A k \in DOMAIN sessions : Phase(sessions[k]) = "FINAL"
    /\ [][\A k \in DOMAIN sessions \cap DOMAIN sessions' :
            (Phase(sessions[k]) = "FINAL" /\ Phase(sessions'[k]) # "FINAL") =>
                sessions' = [sessions EXCEPT ![k] = TurnToDiscoveryPhase(@)]
         ]_vars

\* C26: create_users_from_sessions returns one User for each session of the map,
\* with the id, proxy and user agent of the identity the session was built from
\* and with cookies that hold every cookie of the session and every starting
\* cookie the session did not replace; the phase is not in the user_data.
C26_WriteBack ==
    [][(~written_back.called /\ written_back'.called) =>
        /\ written_back'.raised = "none"
        /\ Len(written_back'.users) = Cardinality(DOMAIN sessions)
        /\ \A k \in DOMAIN sessions :
              \E i \in DOMAIN users :
                  /\ UserSessionId(users[i].user_id) = k
                  /\ Cardinality({n \in DOMAIN written_back'.users :
                                     written_back'.users[n].user_id = users[i].user_id}) = 1
                  /\ \A n \in DOMAIN written_back'.users :
                        written_back'.users[n].user_id = users[i].user_id =>
                            /\ written_back'.users[n].proxy_ip = users[i].proxy_ip
                            /\ written_back'.users[n].user_agent = users[i].user_agent
                            /\ "phase" \notin DOMAIN written_back'.users[n].user_data
                            /\ \A c \in DOMAIN sessions[k].cookies :
                                  [name |-> sessions[k].cookies[c].name,
                                   value |-> sessions[k].cookies[c].value]
                                      \in written_back'.users[n].cookies.items
                            /\ \A c \in DOMAIN users[i].cookies :
                                  \E d \in written_back'.users[n].cookies.items :
                                      d.name = users[i].cookies[c].name
      ]_vars

\* C27: the pool is built with one session for each identity, under the key of
\* that identity's session id; at all times every session of the map is the one
\* built from the identity its key names, and no key is ever added.
C27_OneSessionPerIdentity ==
    /\ Cardinality(DOMAIN sessions) = Len(users)
    /\ \A i \in DOMAIN users : UserSessionId(users[i].user_id) \in DOMAIN sessions
    /\ [](\A k \in DOMAIN sessions :
            /\ sessions[k].id = k
            /\ \E i \in DOMAIN users :
                  /\ UserSessionId(users[i].user_id) = k
                  /\ IdFromSessionId(sessions[k].id).value = users[i].user_id
                  /\ sessions[k].user_data.proxy_url = users[i].proxy_ip
                  /\ sessions[k].user_data.user_agent = users[i].user_agent
                  /\ \A j \in DOMAIN users : UserSessionId(users[j].user_id) = k => j = i)
    /\ [][DOMAIN sessions' \subseteq DOMAIN sessions /\ users' = users]_vars

\* C27 witness: of two identities one has lost its session to the purge, the
\* other's session has changed phase and cookies and is still its own
C27_Witness ==
    /\ Len(users) >= 2
    /\ Cardinality(DOMAIN sessions) = Len(users) - 1
    /\ \E k \in DOMAIN sessions :
          /\ sessions[k].user_data.phase = "DISCOVERY"
          /\ sessions[k].cookies = <<[name |-> "sid", value |-> "new"]>>
          /\ sessions[k].user_data.proxy_url = IdFromSessionId(k).value

\* C31: the step in which a task is handed session s sets last_used[s] to the
\* time of that step, and no later step of that task's execution of the unit
\* (end of the handler, commit, mark good, retire, reclaim) changes last_used.
C31_MeasuredFromAcquisition ==
    [][\A t \in Tasks :
        /\ ((GetSessionReturns(t) \/ ByIdReturns(t)) /\ task'[t].session # NoSession) =>
              /\ task'[t].session \in DOMAIN last_used'
              /\ last_used'[task'[t].session] = now
        /\ (task[t].pc \in {"running", "marking"} /\ task[t].session # NoSession /\ task'[t] # task[t]) =>
              last_used' = last_used
      ]_vars

\* C31 witness: a unit is done on a session whose last_used lies in the past
C31_Witness ==
    \E u \in DOMAIN unit : \E s \in DOMAIN last_used :
        /\ unit[u].state = "DONE"
        /\ sess[s].usage_count >= 1
        /\ ~sess[s].blocked
        /\ last_used[s] < now
        /\ \A t \in Tasks : task[t].pc = "idle"

\* C33: get_session_by_id hands out a usable session of the map although the
\* session is inside its rest period, and sets its last_used to the current time.
C33_ByIdIgnoresCooldown ==
    [][\A t \in Tasks :
        LET id == unit[task[t].request].session_id IN
        (ByIdReturns(t) /\ id \in pool /\ IsUsable(id) /\ ~IsRested(id)) =>
            /\ task'[t].session = id
            /\ last_used'[id] = now
      ]_vars

\* C33 witness: before any time has passed a session has been used to the end
\* once and is in the hands of a task again
C33_Witness ==
    /\ now = 0
    /\ \E t \in Tasks :
        /\ task[t].pc = "running"
        /\ task[t].session # NoSession
        /\ sess[task[t].session].usage_count >= 1
        /\ ~sess[task[t].session].blocked
        /\ unit[task[t].request].session_id = task[t].session

C39_TimeoutClassified ==
    [][\A t \in Tasks :
        Caught(t, "TimeoutError") =>
            LET u == task[t].request IN
            /\ aborted' = aborted
            /\ task'[t].pc = "idle"
            /\ sess' = sess
            /\ unit'[u].session_rotation_count = unit[u].session_rotation_count
            /\ IF ShouldRetryRequest(u) THEN Requeued(u) ELSE HandledFailed(u)
      ]_vars

\* C39 witness: a unit failed for good on a handler timeout and the run goes on
C39_Witness ==
    /\ ~aborted
    /\ \A t \in Tasks : task[t].pc # "crashed"
    /\ \E u \in DOMAIN unit :
        /\ unit[u].state = "FAILED"
        /\ unit[u].last_error = "TimeoutError"
        /\ unit[u].retry_count = MaxRequestRetries

\* C32: a BEFORE_START unit is dispatched, for the first time or after a requeue,
\* only while no WORK unit has been dispatched yet.
C32_WarmupFirst ==
    [][\A t \in Tasks :
        (/\ task[t].pc = "idle"
         /\ task'[t].pc = "fetched"
         /\ unit[task'[t].request].work_type = "BEFORE_START") =>
            \A u \in DOMAIN unit :
                unit[u].work_type = "WORK" => unit[u].state = "UNPROCESSED"
      ]_vars

\* C35: every unit of a submission names a session, WORK unit number k (from 0)
\* names the session of identity number k mod N, and no task is at a call of
\* get_session().
C35_AllPinned ==
    /\ \A i \in DOMAIN unit :
        /\ unit[i].session_id # NoSession
        /\ unit[i].work_type = "WORK" =>
              LET k == i - Len(users) * Len(before_start_urls) - 1 IN
              unit[i].session_id =
                  IdFromSessionId(UserSessionId(users[(k % Len(users)) + 1].user_id)).value
    /\ \A t \in Tasks : ~ENABLED GetSession(t)

\* C35 witness: with more work units than identities, a work unit past the
\* first round is running on the session it names
C35_Witness ==
    \E t \in Tasks :
        /\ task[t].pc = "running"
        /\ task[t].session # NoSession
        /\ unit[task[t].request].work_type = "WORK"
        /\ task[t].session = unit[task[t].request].session_id
        /\ task[t].request - Len(users) * Len(before_start_urls) > Len(users)

\* C36: the BEFORE_START requests of a submission have pairwise distinct unique
\* keys and the queue took every one of them.
C36_DistinctKeys ==
    requests.made =>
        LET list == requests.result.list
            visits == {i \in DOMAIN list : list[i].work_type = "BEFORE_START"}
        IN  /\ Cardinality(visits) = Len(users) * Len(before_start_urls)
            /\ \A i, j \in visits : i # j => list[i].unique_key # list[j].unique_key
            /\ \A i \in visits : \E q \in DOMAIN queue : queue[q] = i

\* C37: the identities written back at the end of a run are those of the
\* sessions still in the map: a retired session that was not purged is written
\* back, a purged session is not.
C37_WrittenBackIffInMap ==
    [][(~written_back.called /\ written_back'.called) =>
        {written_back'.users[n].user_id : n \in DOMAIN written_back'.users}
            = {IdFromSessionId(k).value : k \in DOMAIN sessions}
      ]_vars

\* C38: start_run makes its calls in the order run info, actor info, mark
\* started, crawler run, mark completed, close the storages, snapshot the
\* identities, write them back, drop the queue; it is left early only by the
\* exception that aborted the crawler run, and then no later call is made.
C38_StartRunOrder ==
    /\ \A n \in DOMAIN run.steps : run.steps[n] = StartRunOrder[n]
    /\ run.raised # "none" =>
          /\ run.raised = "Exception"
          /\ run.steps[Len(run.steps)] = "crawler.run"

\* C10: get_session_by_id(id) returns None exactly when id is not in the session
\* map or the session is unusable, otherwise the session with that id, and never
\* waits.
C10_ByIdLookup ==
    [][\A t \in Tasks :
        /\ ByIdReturns(t) =>
            LET id == unit[task[t].request].session_id IN
            /\ task'[t].session = NoSession <=> (id \notin pool \/ ~IsUsable(id))
            /\ task'[t].session # NoSession => task'[t].session = id
        /\ (task[t].pc = "fetched" /\ unit[task[t].request].session_id # NoSession)
            => task'[t].pc # "sleeping"
      ]_vars

\* C10 witness: the lookup of a retired session still in the map has given None
C10_Witness ==
    \E t \in Tasks :
        LET id == unit[task[t].request].session_id IN
        /\ task[t].pc = "running"
        /\ task[t].session = NoSession
        /\ id \in pool
        /\ sess[id].blocked

====
